---- MODULE Spec2Model ----
(***************************************************************************)
(* A model of the DrumGrid component (src/src/components/DrumGrid.vue):    *)
(* the pattern grid with its shape controls, the loading of the drum kit,  *)
(* and the playback loop started by the Play button.                       *)
(*                                                                         *)
(* JavaScript arrays are 0-indexed and TLA+ sequences 1-indexed: cell i of *)
(* an instrument's array is element i + 1 of its sequence.                 *)
(***************************************************************************)
EXTENDS Integers, Sequences, FiniteSets, TLC

\* ------------------------------------------------------------------ bounds
\* Cells a user may switch on at the same time.
MaxActive == 2
\* playPattern loops that may be suspended at the same time.
MaxLoops == 2
\* Playback is explored on grids of at most MaxRunSteps steps.
MaxRunSteps == 4

\* --------------------------------------------------------------- constants
drums ==
  << [id |-> "crash", midiNote |-> 49],
     [id |-> "ride",  midiNote |-> 51],
     [id |-> "tom1",  midiNote |-> 48],
     [id |-> "tom2",  midiNote |-> 45],
     [id |-> "tom3",  midiNote |-> 43],
     [id |-> "hihat", midiNote |-> 42],
     [id |-> "snare", midiNote |-> 38],
     [id |-> "kick",  midiNote |-> 36] >>

DrumIds == {drums[k].id : k \in 1..Len(drums)}

\* The <option> values of the three shape selects.
BarCountOptions == {1, 2, 4, 8}
SubdivisionOptions == {4, 8, 16, 32}
TimeSignatureOptions == {3, 4, 5, 6, 7}

\* The options the playback specifications explore.
PlaySubdivisions == {4, 16}
PlayTimeSignatures == {3, 4, 5}
Tempos == {120, 240}

\* The cells the model's user clicks (instrument, step), where they are on
\* the grid: with playback, and where the grid is explored on its own.
PlayCells == {"snare", "kick"} \X {0, 1}
GridCells == {<< "kick", 0 >>, << "kick", 2 >>, << "kick", 3 >>,
              << "snare", 3 >>}

\* gain: 1.5 and duration: 0.2 of drumKit.play, in tenths.
GainTenths == 15
DurationTenths == 2
\* 60 seconds, in microseconds: stepDuration is kept in microseconds.
MicrosPerMinute == 60000000

NotLoadedMsg == "Drum kit not loaded yet. Please wait or refresh the page."
LoadFailedMsg == "Failed to load drum sounds. Please refresh the page."

VARIABLES
  barCount, subdivision, timeSignature,   \* the shape refs
  currentStep, isPlaying, drumKit, tempo, audioContext, isLoading,
  errorMessage,
  pattern,      \* pattern.value: a function from instrument id to its array
  mountPc,      \* where the onMounted callback is: "awaiting" or "done"
  loops,        \* the suspended playPattern calls, oldest pending timer first
  emitted,      \* history: the drumKit.play calls of the last step taken
  outcome       \* history: the last handler that ran and how it ended

vars == << barCount, subdivision, timeSignature, currentStep, isPlaying,
           drumKit, tempo, audioContext, isLoading, errorMessage, pattern,
           mountPc, loops, emitted, outcome >>

shapeVars == << barCount, subdivision, timeSignature >>
playVars == << currentStep, isPlaying, loops >>
loadVars == << drumKit, audioContext, isLoading, mountPc >>

\* ------------------------------------------------------------ the pattern
\* barCount * subdivision * (timeSignature / 4): timeSignature / 4 is a
\* multiple of 1/4, exact in floating point, and every subdivision is a
\* multiple of 4, so the product is the integer below.
gridStepsOf(b, s, t) == (b * s * t) \div 4

gridSteps == gridStepsOf(barCount, subdivision, timeSignature)

\* Array(n).fill(false)
Filled(n) == [k \in 1..n |-> FALSE]

\* initializePattern without its truncating branch.
initializePattern_KeepsLonger(p, steps) ==
  [d \in DrumIds |->
     LET old == IF d \in DOMAIN p THEN p[d] ELSE Filled(steps)
     IN  IF Len(old) < steps THEN old \o Filled(steps - Len(old)) ELSE old]

\* initializePattern truncating with slice(-steps): it keeps the tail.
initializePattern_DropsHead(p, steps) ==
  [d \in DrumIds |->
     LET old == IF d \in DOMAIN p THEN p[d] ELSE Filled(steps)
     IN  IF Len(old) < steps THEN old \o Filled(steps - Len(old))
         ELSE IF Len(old) > steps
              THEN SubSeq(old, Len(old) - steps + 1, Len(old))
              ELSE old]

\* initializePattern: the new pattern.value, from the old one and gridSteps.
initializePattern(p, steps) ==
  [d \in DrumIds |->
     LET old == IF d \in DOMAIN p THEN p[d] ELSE Filled(steps)
     IN  IF Len(old) < steps THEN old \o Filled(steps - Len(old))
         ELSE IF Len(old) > steps THEN SubSeq(old, 1, steps)
         ELSE old]

\* pattern.value[drumId][step] read as a condition: undefined is falsy.
CellOn(p, d, step) ==
  /\ d \in DOMAIN p
  /\ step >= 0
  /\ step < Len(p[d])
  /\ p[d][step + 1]

\* toggleCell(drumId, step): the error it throws, if any, and pattern.value
\* after it.  pattern.value[drumId] undefined: the read of [step] throws a
\* TypeError.  step at or past the end: the assignment of !undefined grows
\* the array to step + 1 elements, the skipped ones empty (read as falsy).
\* step negative: the assignment sets a property that is no element, and
\* the elements and the length stay as they are.
toggleCell(p, drumId, step) ==
  IF drumId \notin DOMAIN p
  THEN [error |-> "TypeError", pattern |-> p]
  ELSE IF step < 0
  THEN [error |-> "none", pattern |-> p]
  ELSE IF step < Len(p[drumId])
  THEN [error |-> "none",
        pattern |-> [p EXCEPT ![drumId][step + 1] = ~p[drumId][step + 1]]]
  ELSE [error |-> "none",
        pattern |-> [p EXCEPT ![drumId] =
                       p[drumId] \o Filled(step - Len(p[drumId]))
                                 \o << TRUE >>]]

\* isBarStart with the divisor of isQuarterNote.
isBarStart_PerQuarter(stepIndex) ==
  LET stepsPerQuarter == subdivision \div 4
  IN  stepIndex % stepsPerQuarter = 0

\* isBarStart: subdivision * (timeSignature / 4) is an integer, as above.
isBarStart(stepIndex) ==
  LET stepsPerBar == (subdivision * timeSignature) \div 4
  IN  stepIndex % stepsPerBar = 0

\* ----------------------------------------------------------- the playback
\* playPattern without its guard.
PlayerReady_Always == TRUE

\* playPattern guarded by the audio context alone.
PlayerReady_ContextOnly == audioContext # "null"

\* The sample player is loaded: the guard of playPattern, negated.
PlayerReady == drumKit # "null" /\ audioContext # "null"

\* The Play button disabled while loading only.
PlayDisabled_WhileLoadingOnly == isLoading

\* :disabled of the Play button: a click on a disabled button calls nothing.
PlayDisabled == isPlaying \/ isLoading

\* :disabled of the Stop button.
StopDisabled == ~isPlaying \/ isLoading

\* (60 / tempo) / (subdivision / 4) seconds, in microseconds (exact for the
\* tempos of the model).
stepDurationOf(t, s) == (MicrosPerMinute \div t) \div (s \div 4)

Trigger(k) ==
  [note |-> drums[k].midiNote, gain |-> GainTenths, duration |-> DurationTenths]

RECURSIVE TriggersFrom(_, _, _)
TriggersFrom(p, step, k) ==
  IF k > Len(drums) THEN << >>
  ELSE (IF CellOn(p, drums[k].id, step) THEN << Trigger(k) >> ELSE << >>)
       \o TriggersFrom(p, step, k + 1)

\* One step's play calls read from the column after it.
StepTriggers_NextColumn(p, step) == TriggersFrom(p, step + 1, 1)

\* drums.value.forEach(...) of one step: the drumKit.play calls, in order.
StepTriggers(p, step) == TriggersFrom(p, step, 1)

RECURSIVE RunTriggers(_, _, _)
\* What a run over an unchanging pattern plays from step `from` on.
RunTriggers(p, from, steps) ==
  IF from >= steps THEN << >>
  ELSE StepTriggers(p, from) \o RunTriggers(p, from + 1, steps)

\* History fields of every suspended loop, after the pattern, the shape (or
\* with `stop`, the running flag) was changed under it.
Disturbed(ls, stop) ==
  [k \in DOMAIN ls |->
     [ls[k] EXCEPT !.clean = FALSE, !.log = << >>,
                   !.stopped = (ls[k].stopped \/ stop)]]

Without(ls, i) == SubSeq(ls, 1, i - 1) \o SubSeq(ls, i + 1, Len(ls))

\* One pass of the for loop of playPattern, from its condition to the await
\* (or to the two assignments after the loop): `me` is the loop with its
\* step variable already set, `rest` the other suspended loops, `playing`
\* isPlaying as the pass finds it, `op` the handler the pass runs in.
LoopPass(me, rest, playing, op) ==
  IF me.step < gridSteps /\ playing
  THEN /\ currentStep' = me.step
       /\ isPlaying' = playing
       /\ emitted' = StepTriggers(pattern, me.step)
       /\ loops' = rest \o
            << [me EXCEPT !.log = IF me.clean
                                  THEN me.log \o StepTriggers(pattern, me.step)
                                  ELSE << >>] >>
       /\ outcome' = [op |-> op, result |-> "waiting", step |-> me.step,
                      stopped |-> me.stopped]
  ELSE /\ currentStep' = -1
       /\ isPlaying' = FALSE
       /\ emitted' = << >>
       /\ loops' = rest
       /\ outcome' = [op |-> op, result |-> "exit", step |-> me.step,
                      stopped |-> me.stopped, clean |-> me.clean,
                      log |-> me.log]

\* errorMessage.value as a call of playPattern leaves it.
playPatternReport == IF ~PlayerReady THEN NotLoadedMsg ELSE errorMessage

\* playPattern, up to its first await.
playPattern ==
  IF ~PlayerReady
  THEN /\ errorMessage' = playPatternReport
       /\ emitted' = << >>
       /\ outcome' = [op |-> "play", result |-> "notReady"]
       /\ UNCHANGED << shapeVars, playVars, loadVars, tempo, pattern >>
  ELSE /\ Len(loops) < MaxLoops
       /\ gridSteps <= MaxRunSteps
       /\ LoopPass([step |-> 0,
                    stepDuration |-> stepDurationOf(tempo, subdivision),
                    startSubdivision |-> subdivision,
                    stopped |-> FALSE, clean |-> TRUE, log |-> << >>],
                   loops, TRUE, "play")
       /\ UNCHANGED << shapeVars, loadVars, tempo, pattern, errorMessage >>

\* A click on the Play button.
PlayClick ==
  IF PlayDisabled
  THEN /\ outcome' = [op |-> "play", result |-> "ignored"]
       /\ emitted' = << >>
       /\ UNCHANGED << shapeVars, playVars, loadVars, tempo, pattern,
                       errorMessage >>
  ELSE playPattern

\* stopPattern rewinding the cursor to the first step.
stopPatternResult_RewindsToZero == [isPlaying |-> FALSE, currentStep |-> 0]

\* stopPattern clearing the flag only.
stopPatternResult_FlagOnly == [isPlaying |-> FALSE, currentStep |-> currentStep]

\* The two refs stopPattern assigns, as it leaves them.
stopPatternResult == [isPlaying |-> FALSE, currentStep |-> -1]

stopPattern ==
  /\ isPlaying' = stopPatternResult.isPlaying
  /\ currentStep' = stopPatternResult.currentStep
  /\ loops' = Disturbed(loops, TRUE)
  /\ emitted' = << >>
  /\ outcome' = [op |-> "stop", result |-> "stopped"]
  /\ UNCHANGED << shapeVars, loadVars, tempo, pattern, errorMessage >>

\* A click on the Stop button.
StopClick ==
  IF StopDisabled
  THEN /\ outcome' = [op |-> "stop", result |-> "ignored"]
       /\ emitted' = << >>
       /\ UNCHANGED << shapeVars, playVars, loadVars, tempo, pattern,
                       errorMessage >>
  ELSE stopPattern

\* The resumed loop starting over at the first step instead of step++.
Tick_StartsOver(i) ==
  /\ i \in DOMAIN loops
  /\ \A j \in 1..(i - 1) : loops[j].stepDuration > loops[i].stepDuration
  /\ LoopPass([loops[i] EXCEPT !.step = 0],
              Without(loops, i), isPlaying, "tick")
  /\ UNCHANGED << shapeVars, loadVars, tempo, pattern, errorMessage >>

\* The timer of suspended loop i fires and playPattern resumes after its
\* await: step++, then the next pass.  A timer fires only after every timer
\* set before it with an equal or shorter delay (the order setTimeout
\* guarantees); `loops` is in the order the pending timers were set.
Tick(i) ==
  /\ i \in DOMAIN loops
  /\ \A j \in 1..(i - 1) : loops[j].stepDuration > loops[i].stepDuration
  /\ LoopPass([loops[i] EXCEPT !.step = loops[i].step + 1],
              Without(loops, i), isPlaying, "tick")
  /\ UNCHANGED << shapeVars, loadVars, tempo, pattern, errorMessage >>

\* A pass of the for loop in which the k-th drumKit.play call of the step
\* throws: nothing catches it, so the exception leaves the forEach callback,
\* forEach and playPattern, whose promise rejects.  The calls before it were
\* made, the await is never reached, and the two assignments after the loop
\* never run.
LoopPassThrows(me, rest, playing, op, k) ==
  /\ me.step < gridSteps
  /\ playing
  /\ k \in 1..Len(StepTriggers(pattern, me.step))
  /\ currentStep' = me.step
  /\ isPlaying' = playing
  /\ emitted' = SubSeq(StepTriggers(pattern, me.step), 1, k)
  /\ loops' = rest
  /\ outcome' = [op |-> op, result |-> "threw", step |-> me.step,
                 stopped |-> me.stopped]

\* A click on the Play button whose first pass meets a throwing play call.
PlayClickThrows(k) ==
  /\ ~PlayDisabled
  /\ PlayerReady
  /\ Len(loops) < MaxLoops
  /\ gridSteps <= MaxRunSteps
  /\ LoopPassThrows([step |-> 0,
                     stepDuration |-> stepDurationOf(tempo, subdivision),
                     startSubdivision |-> subdivision,
                     stopped |-> FALSE, clean |-> TRUE, log |-> << >>],
                    loops, TRUE, "play", k)
  /\ UNCHANGED << shapeVars, loadVars, tempo, pattern, errorMessage >>

\* The timer of suspended loop i fires and the pass meets a throwing play
\* call.
TickThrows(i, k) ==
  /\ i \in DOMAIN loops
  /\ \A j \in 1..(i - 1) : loops[j].stepDuration > loops[i].stepDuration
  /\ LoopPassThrows([loops[i] EXCEPT !.step = loops[i].step + 1],
                    Without(loops, i), isPlaying, "tick", k)
  /\ UNCHANGED << shapeVars, loadVars, tempo, pattern, errorMessage >>

\* v-model of the tempo input.
SetTempo(t) ==
  /\ t # tempo
  /\ tempo' = t
  /\ emitted' = << >>
  /\ outcome' = [op |-> "tempo", result |-> "set"]
  /\ UNCHANGED << shapeVars, playVars, loadVars, pattern, errorMessage >>

\* ------------------------------------------------------------- the pattern
\* Cells switched on, among those the model's user clicks.
ActiveCount(p) ==
  Cardinality({c \in PlayCells \cup GridCells : CellOn(p, c[1], c[2])})

\* A click on a grid cell: @click="toggleCell(drum.id, step - 1)".  An error
\* thrown by the handler is reported by Vue and changes nothing.
ToggleClick(drumId, step) ==
  LET r == toggleCell(pattern, drumId, step)
  IN  /\ CellOn(pattern, drumId, step) \/ ActiveCount(pattern) < MaxActive
      /\ pattern' = r.pattern
      /\ loops' = IF r.pattern = pattern THEN loops ELSE Disturbed(loops, FALSE)
      /\ emitted' = << >>
      /\ outcome' = [op |-> "toggle", result |-> r.error]
      /\ UNCHANGED << shapeVars, currentStep, isPlaying, loadVars, tempo,
                      errorMessage >>

\* watch([barCount, subdivision, timeSignature], initializePattern): the
\* select's v-model sets one ref, and the watcher runs initializePattern
\* before any other handler or timer.
ShapeChange(b, s, t) ==
  /\ << b, s, t >> # << barCount, subdivision, timeSignature >>
  /\ loops = << >> \/ gridStepsOf(b, s, t) <= MaxRunSteps
  /\ barCount' = b
  /\ subdivision' = s
  /\ timeSignature' = t
  /\ pattern' = initializePattern(pattern, gridStepsOf(b, s, t))
  /\ loops' = Disturbed(loops, FALSE)
  /\ emitted' = << >>
  /\ outcome' = [op |-> "shape",
                 result |-> IF gridStepsOf(b, s, t) > gridSteps THEN "grew"
                            ELSE IF gridStepsOf(b, s, t) < gridSteps
                                 THEN "shrank" ELSE "same"]
  /\ UNCHANGED << currentStep, isPlaying, loadVars, tempo, errorMessage >>

SetBarCount(b) == ShapeChange(b, subdivision, timeSignature)
SetSubdivision(s) == ShapeChange(barCount, s, timeSignature)
SetTimeSignature(t) == ShapeChange(barCount, subdivision, t)

\* ------------------------------------------------------------- the loading
\* Soundfont.instrument resolves: the rest of the try block of onMounted.
LoadResolved ==
  /\ mountPc = "awaiting"
  /\ drumKit' = "kit"
  /\ pattern' = initializePattern(pattern, gridSteps)
  /\ isLoading' = FALSE
  /\ mountPc' = "done"
  /\ emitted' = << >>
  /\ outcome' = [op |-> "load", result |-> "resolved"]
  /\ UNCHANGED << shapeVars, playVars, audioContext, tempo, errorMessage >>

\* Soundfont.instrument rejects: the catch block of onMounted.
LoadRejected ==
  /\ mountPc = "awaiting"
  /\ errorMessage' = LoadFailedMsg
  /\ isLoading' = FALSE
  /\ mountPc' = "done"
  /\ emitted' = << >>
  /\ outcome' = [op |-> "load", result |-> "rejected"]
  /\ UNCHANGED << shapeVars, playVars, drumKit, audioContext, tempo, pattern >>

\* The refs as setup leaves them.
Setup ==
  /\ barCount = 1
  /\ subdivision = 16
  /\ timeSignature = 4
  /\ currentStep = -1
  /\ isPlaying = FALSE
  /\ drumKit = "null"
  /\ tempo = 120
  /\ pattern = << >>
  /\ loops = << >>
  /\ emitted = << >>

\* The component once mounted: onMounted has run up to its await, or, when
\* the browser has no AudioContext to construct, through its catch block.
Init ==
  /\ Setup
  /\ \/ /\ audioContext = "context"
        /\ isLoading = TRUE
        /\ errorMessage = ""
        /\ mountPc = "awaiting"
     \/ /\ audioContext = "null"
        /\ isLoading = FALSE
        /\ errorMessage = LoadFailedMsg
        /\ mountPc = "done"
  /\ outcome = [op |-> "mount", result |-> mountPc]

\* The component with its playback, at the default tempo.
Next ==
  \/ LoadResolved
  \/ LoadRejected
  \/ \E c \in PlayCells : c[2] < gridSteps /\ ToggleClick(c[1], c[2])
  \/ \E s \in PlaySubdivisions : SetSubdivision(s)
  \/ \E t \in PlayTimeSignatures : SetTimeSignature(t)
  \/ PlayClick
  \/ StopClick
  \/ \E i \in 1..MaxLoops : Tick(i)

Spec == Init /\ [][Next]_vars

\* The pattern grid alone, over every option of the three selects.
NextGrid ==
  \/ LoadResolved
  \/ LoadRejected
  \/ \E c \in GridCells : c[2] < gridSteps /\ ToggleClick(c[1], c[2])
  \/ \E b \in BarCountOptions : SetBarCount(b)
  \/ \E s \in SubdivisionOptions : SetSubdivision(s)
  \/ \E t \in TimeSignatureOptions : SetTimeSignature(t)

SpecGrid == Init /\ [][NextGrid]_vars

\* The playback of an empty pattern, with the tempo input.
NextTempo ==
  \/ LoadResolved
  \/ LoadRejected
  \/ \E s \in PlaySubdivisions : SetSubdivision(s)
  \/ \E t \in Tempos : SetTempo(t)
  \/ PlayClick
  \/ StopClick
  \/ \E i \in 1..MaxLoops : Tick(i)

SpecTempo == Init /\ [][NextTempo]_vars

\* The component with its playback and a sample player whose play may throw.
NextFault ==
  \/ LoadResolved
  \/ LoadRejected
  \/ \E c \in PlayCells : c[2] < gridSteps /\ ToggleClick(c[1], c[2])
  \/ \E s \in PlaySubdivisions : SetSubdivision(s)
  \/ PlayClick
  \/ StopClick
  \/ \E i \in 1..MaxLoops : Tick(i)
  \/ \E k \in 1..Len(drums) : PlayClickThrows(k)
  \/ \E i \in 1..MaxLoops : \E k \in 1..Len(drums) : TickThrows(i, k)

SpecFault == Init /\ [][NextFault]_vars

\* The cell the user clicks where every wait elapses.
LiveCells == {<< "kick", 1 >>}

\* The component with its playback, toggles, shape and tempo changes.
NextLive ==
  \/ LoadResolved
  \/ LoadRejected
  \/ \E c \in LiveCells : c[2] < gridSteps /\ ToggleClick(c[1], c[2])
  \/ \E s \in PlaySubdivisions : SetSubdivision(s)
  \/ \E t \in Tempos : SetTempo(t)
  \/ PlayClick
  \/ StopClick
  \/ \E i \in 1..MaxLoops : Tick(i)

\* A timer that was set fires: the wait of a suspended loop elapses.
SpecLive ==
  Init /\ [][NextLive]_vars /\ WF_vars(\E i \in 1..MaxLoops : Tick(i))

\* ------------------------------------------------------------- properties
\* The model's values are of the expected kinds.
TypeOK ==
  /\ barCount \in BarCountOptions
  /\ subdivision \in SubdivisionOptions
  /\ timeSignature \in TimeSignatureOptions
  /\ currentStep \in -1..gridSteps
  /\ isPlaying \in BOOLEAN
  /\ isLoading \in BOOLEAN
  /\ tempo \in Tempos
  /\ DOMAIN pattern \in {{}, DrumIds}
  /\ Len(loops) <= MaxLoops

\* C1: after every grid-shape change to values of the option sets, the total
\* step count is barCount * subdivision * (timeSignature / 4) and every
\* instrument's sequence has exactly that length.
C1_ShapeChangeResizes ==
  outcome.op = "shape" =>
    /\ 4 * gridSteps = barCount * subdivision * timeSignature
    /\ DOMAIN pattern = DrumIds
    /\ \A d \in DrumIds : Len(pattern[d]) = gridSteps

\* A shape change has shrunk a populated grid to its smallest size.
C1_Witness ==
  /\ outcome.op = "shape"
  /\ outcome.result = "shrank"
  /\ gridSteps = 3
  /\ CellOn(pattern, "kick", 0)

\* C2: a grid-shape change resizes every instrument's sequence by index:
\* the cells below both lengths keep their values, the new trailing cells of
\* a grown sequence are false, and a shrunk sequence is the prefix of the
\* old one.
C2_ResizeByIndex ==
  [][outcome'.op = "shape" =>
       \A d \in DrumIds :
         LET old == IF d \in DOMAIN pattern THEN pattern[d] ELSE << >>
             new == pattern'[d]
         IN  /\ \A k \in 1..Len(new) :
                  new[k] = IF k <= Len(old) THEN old[k] ELSE FALSE
             /\ Len(new) <= Len(old) => new = SubSeq(old, 1, Len(new))]_vars

\* A four-step row [T,F,T,?] has been cut to three steps, [T,F,T].
C2_Witness ==
  /\ outcome.op = "shape"
  /\ outcome.result = "shrank"
  /\ gridSteps = 3
  /\ pattern["kick"] = << TRUE, FALSE, TRUE >>

\* C10: isBarStart holds of step 0 and, among the steps of the grid, of
\* exactly the multiples of subdivision * (timeSignature / 4): one per bar.
C10_BarStarts ==
  /\ isBarStart(0)
  /\ \A i \in 0..(gridSteps - 1) :
       isBarStart(i) <=>
         \E k \in 0..(barCount - 1) : 4 * i = k * subdivision * timeSignature
  /\ Cardinality({i \in 0..(gridSteps - 1) : isBarStart(i)}) = barCount

\* Two bars of sixteenths in 4/4: step 16 starts a bar, step 8 does not.
C10_Witness ==
  /\ barCount = 2
  /\ subdivision = 16
  /\ timeSignature = 4
  /\ isBarStart(16)
  /\ ~isBarStart(8)

\* C3: for every instrument and every step of the grid, a call of toggleCell
\* succeeds, flips that cell and no other, and a second call restores the
\* pattern.
C3_ToggleFlipsOneCell ==
  \A d \in DrumIds, st \in 0..(gridSteps - 1) :
    LET once == toggleCell(pattern, d, st)
        twice == toggleCell(once.pattern, d, st)
    IN  /\ once.error = "none"
        /\ DOMAIN once.pattern = DOMAIN pattern
        /\ CellOn(once.pattern, d, st) = ~CellOn(pattern, d, st)
        /\ \A e \in DOMAIN pattern :
             /\ Len(once.pattern[e]) = Len(pattern[e])
             /\ \A k \in 1..Len(pattern[e]) :
                  << e, k >> # << d, st + 1 >> =>
                    once.pattern[e][k] = pattern[e][k]
        /\ twice.pattern = pattern

\* An instrument that is none of the eight.
UnknownDrumId == "cowbell"

\* C4: a call of toggleCell with an unknown instrument or a step outside
\* [0, totalSteps) fails and leaves the pattern as it was.
C4_OutOfRangeRejected ==
  \A d \in DrumIds \cup {UnknownDrumId}, st \in -1..(gridSteps + 1) :
    (d \notin DrumIds \/ st < 0 \/ st >= gridSteps) =>
      LET r == toggleCell(pattern, d, st)
      IN  r.error # "none" /\ r.pattern = pattern

\* C5: while the sample player is not ready the scheduler is idle with its
\* cursor at -1 and nothing is played; a call of playPattern there reports
\* the not-ready message and starts nothing, and a click on Play either
\* makes that call or, while loading, is dropped by the disabled button.
C5_NotReadyStartChangesNothing ==
  (drumKit = "null" \/ audioContext = "null") =>
    /\ currentStep = -1
    /\ ~isPlaying
    /\ loops = << >>
    /\ emitted = << >>
    /\ playPatternReport = NotLoadedMsg
    /\ outcome.op = "play" =>
         \/ outcome.result = "notReady" /\ errorMessage = NotLoadedMsg
         \/ outcome.result = "ignored" /\ isLoading

\* Play was clicked after the loading failed.
C5_Witness ==
  /\ outcome = [op |-> "play", result |-> "notReady"]
  /\ drumKit = "null"
  /\ ~isLoading
  /\ errorMessage = NotLoadedMsg
  /\ currentStep = -1

\* C6: a click on Play while playback is running starts nothing: the
\* cursor, the running flag, the suspended loop and the pattern stay as they
\* are and nothing is played.
C6_PlayWhileRunningIgnored ==
  [][(outcome'.op = "play" /\ isPlaying) =>
       /\ outcome'.result = "ignored"
       /\ emitted' = << >>
       /\ UNCHANGED << currentStep, isPlaying, loops, pattern, tempo,
                       shapeVars, errorMessage >>]_vars

\* Play was clicked in the middle of a run.
C6_Witness ==
  /\ outcome = [op |-> "play", result |-> "ignored"]
  /\ isPlaying
  /\ currentStep = 1
  /\ Len(loops) = 1

\* C7: a run that was not stopped and whose pattern and shape did not
\* change has played, when its loop ends, exactly the active cells of every
\* step 0 .. totalSteps - 1 in order, and leaves the scheduler idle with the
\* cursor at -1.
C7_UndisturbedRunPlaysEveryStep ==
  (outcome.result = "exit" /\ outcome.clean) =>
    /\ outcome.log = RunTriggers(pattern, 0, gridSteps)
    /\ currentStep = -1
    /\ ~isPlaying

\* C8: stop resets the cursor to -1 and the running flag at once, and a loop
\* that was stopped plays nothing when its wait is over.
C8_NoTriggerAfterStop ==
  /\ outcome = [op |-> "stop", result |-> "stopped"] =>
       currentStep = -1 /\ ~isPlaying
  /\ (outcome.op = "tick" /\ outcome.stopped) => emitted = << >>

\* C9: the wait of every step lasts the step duration of the tempo current
\* when that step begins.
C9_WaitUsesCurrentTempo ==
  outcome.result = "waiting" =>
    loops[Len(loops)].stepDuration =
      stepDurationOf(tempo, loops[Len(loops)].startSubdivision)

\* C11: stopPattern on an idle scheduler assigns the two refs the values
\* they have, so it changes nothing, and so does a second stop after any
\* stop; a click on Stop while idle leaves the flag, the cursor, the pattern
\* and the shape as they are.
C11_StopIdempotent ==
  [][/\ ~isPlaying =>
          stopPatternResult =
            [isPlaying |-> isPlaying, currentStep |-> currentStep]
     /\ (outcome'.op = "stop" /\ ~isPlaying) =>
          UNCHANGED << currentStep, isPlaying, pattern, shapeVars, tempo >>
     /\ outcome'.op = "stop" =>
          << isPlaying', currentStep' >> = << FALSE, -1 >>]_vars

\* Stop was clicked on a loaded, idle scheduler.
C11_Witness ==
  /\ outcome = [op |-> "stop", result |-> "ignored"]
  /\ drumKit = "kit"
  /\ ~isPlaying
  /\ currentStep = -1

\* The loading of the sample player has failed.
LoadFailed == ~isLoading /\ drumKit = "null"

\* C12: once the loading has failed it stays failed, the scheduler stays
\* idle with the cursor at -1, nothing is played, and every click on Play
\* reports the not-ready message, whatever else is done.
C12_FailedLoadStaysIdle ==
  [][LoadFailed =>
       /\ LoadFailed'
       /\ ~isPlaying' /\ currentStep' = -1 /\ loops' = << >>
       /\ emitted' = << >>
       /\ outcome'.op = "play" =>
            outcome'.result = "notReady" /\ errorMessage' = NotLoadedMsg]_vars

\* Play was clicked after Soundfont.instrument rejected and the shape and
\* a cell were changed.
C12_Witness ==
  /\ LoadFailed
  /\ audioContext = "context"
  /\ outcome = [op |-> "play", result |-> "notReady"]
  /\ subdivision = 4
  /\ ActiveCount(pattern) > 0

\* C13: after a pass in which a drumKit.play call threw, every active
\* instrument of that step has been triggered and the loop is suspended on
\* the wait of that step, to go on with the next one.
C13_FailedTriggerDoesNotAbort ==
  outcome.result = "threw" =>
    /\ emitted = StepTriggers(pattern, outcome.step)
    /\ loops # << >>
    /\ loops[Len(loops)].step = outcome.step

\* C14: a pass that plays a step is made by a loop that was never stopped,
\* so by the loop of the current run, and it puts the cursor at 0 when it is
\* the first pass of a run and one past the cursor otherwise.
C14_OneLoopAtATime ==
  [][outcome'.result = "waiting" =>
       /\ ~outcome'.stopped
       /\ \/ outcome'.op = "play" /\ currentStep' = 0
          \/ outcome'.op = "tick" /\ isPlaying
                                  /\ currentStep' = currentStep + 1]_vars

\* C15: the cursor is -1 or the index of a column of the grid as it is.
C15_CursorInRange ==
  currentStep = -1 \/ (0 <= currentStep /\ currentStep < gridSteps)

\* C18: the pattern has a row for each of the eight instruments and no
\* other, and every row is as long as the grid.
C18_PatternMatchesShape ==
  /\ DOMAIN pattern = DrumIds
  /\ \A d \in DOMAIN pattern : Len(pattern[d]) = gridSteps

\* C20: a loop that leaves its for loop without a stop since its start has
\* run through every step of the grid.
C20_OnlyOwnStopEndsRun ==
  (outcome.result = "exit" /\ ~outcome.stopped) => outcome.step >= gridSteps

\* C17: the play calls of a pass are those of the instruments whose cell
\* of that step is on in the pattern as the pass finds it, in the order of
\* the rows, and the pass leaves the pattern alone; a click on a cell or a
\* change of shape plays nothing and leaves the cursor where it is.
C17_PatternReadAtTick ==
  [][/\ outcome'.result = "waiting" =>
          /\ emitted' = TriggersFrom(pattern, currentStep', 1)
          /\ pattern' = pattern
     /\ outcome'.op \in {"toggle", "shape"} =>
          /\ emitted' = << >>
          /\ currentStep' = currentStep
          /\ isPlaying' = isPlaying]_vars

\* A run whose pattern was changed under it, and not stopped, has just
\* played a step with a cell on.
C17_Witness ==
  /\ outcome.op = "tick"
  /\ outcome.result = "waiting"
  /\ ~outcome.stopped
  /\ emitted # << >>
  /\ Len(loops) = 1
  /\ ~loops[1].clean
  /\ loops[1].startSubdivision = subdivision

\* C19: isPlaying is true exactly when the cursor is on a step.
C19_PlayingIffCursor == isPlaying <=> currentStep # -1

\* A stopped loop has left its for loop under a later run, whose loop is
\* still suspended.
C19_Witness ==
  /\ outcome.result = "exit"
  /\ outcome.stopped
  /\ Len(loops) = 1
  /\ ~loops[1].stopped
  /\ ~isPlaying

====
